---- MODULE Spec2Model ----
(***************************************************************************)
(* A model of src/tm.py: the deterministic and the nondeterministic Turing *)
(* machine engines and the result object they return.                      *)
(*                                                                         *)
(* Python indices are kept 0-based where the code computes with them       *)
(* (state indices, symbol indices, position); a tape is a sequence, so     *)
(* the cell under the head is tape[position + 1].  A numpy array is a      *)
(* mutable buffer: buffers live in `heap`, a configuration refers to its   *)
(* buffer by address (its index in heap), so that sharing a buffer between *)
(* two configurations is expressible.                                      *)
(***************************************************************************)
EXTENDS Integers, Sequences, FiniteSets, TLC

VARIABLES
    engine,             \* "D": DeterministicTuringMachine, "N": NondeterministicTuringMachine
    description,        \* self.description
    input,              \* the caller's input list of the current call
    pc,                 \* "idle" | "running" | "done" | "error" | "construct"
    configurations,     \* the live configurations (D: the one configuration)
    heap,               \* tape buffers, by address
    num_steps,          \* local num_steps of process_input
    new_configurations, \* N: successors yielded so far in this generation
    c_idx,              \* N: index in configurations of the configuration being stepped
    i_idx,              \* N: enumerate index i of the next triple in perform_step
    transitions,        \* N: the local list `transitions` of the running perform_step
    conf,               \* N: the local `conf` of perform_step after its last iteration
    result,             \* the returned TuringMachineResult, or NoResult
    error,              \* the exception raised by the call, or "none"
    tape_arg,           \* the tape argument handed to TuringMachineResult
    steps,              \* history: perform_step calls (D) / triples applied (N) in this call
    generation,         \* history: generations completed by this call (N)
    parents,            \* history: the live configurations, by value, as the generation began
    prev,               \* history: input and outcome of the previous call on this object
    budget              \* calls the caller may still make

vars == <<engine, description, input, pc, configurations, heap, num_steps,
          new_configurations, c_idx, i_idx, transitions, conf, result, error,
          tape_arg, steps, generation, parents, prev, budget>>

(***************************************************************************)
(* Bounds of the model.                                                    *)
(***************************************************************************)
MaxLen == 2      \* longest input a caller passes
MaxSteps == 3    \* a run is followed while num_steps < MaxSteps
MaxCalls == 2    \* calls made on one machine object in a session
MaxTape == 4     \* longest tape handed directly to TuringMachineResult

NoResult == [num_steps |-> 0, accepted |-> FALSE, tape |-> <<"no result">>]
None == <<"None">>

(***************************************************************************)
(* TuringMachineResult.__init__ (tm.py 12-23).                             *)
(***************************************************************************)
\* The value of i when `for i, letter in enumerate(reversed(tape))` ends:
\* the index of the first non-blank letter from the right, or the last index
\* when the loop runs off the end without a break.
RECURSIVE trim_loop(_, _)
trim_loop(tape, i) ==
    IF tape[Len(tape) - i] # "_" THEN i
    ELSE IF i + 1 = Len(tape) THEN i
    ELSE trim_loop(tape, i + 1)

\* as TuringMachineResult, with `tape[:-i]` taken also when i = 0
TuringMachineResult_unguarded(n, accepted, tape) ==
    [num_steps |-> n, accepted |-> accepted,
     tape |-> IF tape = None THEN None
              ELSE LET i == trim_loop(tape, 0)
                       t == IF i > 0 THEN SubSeq(tape, 1, Len(tape) - i) ELSE <<>>
                   IN  IF t = <<>> THEN <<"_">> ELSE t]

TuringMachineResult(n, accepted, tape) ==
    [num_steps |-> n, accepted |-> accepted,
     tape |-> IF tape = None THEN None
              ELSE LET i == trim_loop(tape, 0)
                       t == IF i > 0 THEN SubSeq(tape, 1, Len(tape) - i) ELSE tape
                   IN  IF t = <<>> THEN <<"_">> ELSE t]

(***************************************************************************)
(* Encoding and decoding of symbols (tm.py 49-52, 62, 64).                 *)
(***************************************************************************)
U8(x) == x % 256

InAlphabet(alphabet, x) == \E k \in 1..Len(alphabet) : alphabet[k] = x

\* list.index: the 0-based index of the first occurrence
index(alphabet, x) ==
    (CHOOSE k \in 1..Len(alphabet) :
        alphabet[k] = x /\ \A j \in 1..(k - 1) : alphabet[j] # x) - 1

\* as encode, with a symbol that is not in the alphabet taken for the blank
encode_lenient(alphabet, inp) ==
    [ok |-> TRUE,
     tape |-> [k \in 1..Len(inp) |->
                  IF InAlphabet(alphabet, inp[k]) THEN U8(index(alphabet, inp[k])) ELSE 0]]

\* the try block: ok = FALSE stands for the ValueError of list.index
encode(alphabet, inp) ==
    IF \A k \in 1..Len(inp) : InAlphabet(alphabet, inp[k])
    THEN [ok |-> TRUE, tape |-> [k \in 1..Len(inp) |-> U8(index(alphabet, inp[k]))]]
    ELSE [ok |-> FALSE, tape |-> <<>>]

decode(alphabet, tape) == [k \in 1..Len(tape) |-> alphabet[tape[k] + 1]]

TuringMachineConfiguration(state, tape, position) ==
    [state |-> state, tape |-> tape, position |-> position]

\* a configuration with the contents of its buffer in place of the address
Value(configuration, h) == [configuration EXCEPT !.tape = h[configuration.tape]]

\* as resize, with one cell more than asked for
resize_one_more(buf, n) == [k \in 1..(n + 1) |-> IF k <= Len(buf) THEN buf[k] ELSE 0]

\* as resize, filling the new cells with repeated copies as numpy.resize does
resize_repeat(buf, n) == [k \in 1..n |-> IF k <= Len(buf) THEN buf[k] ELSE buf[k - Len(buf)]]

\* ndarray.resize(n, refcheck=False) enlarging in place: new cells are zero
resize(buf, n) == [k \in 1..n |-> IF k <= Len(buf) THEN buf[k] ELSE 0]

\* as D_perform_step, without the write of tape_output
D_perform_step_no_write(d, configuration, h) ==
    LET tape == h[configuration.tape]
        tape_input == tape[configuration.position + 1]
        state == d.transitions[configuration.state]
    IN  IF tape_input \in DOMAIN state
        THEN LET t == state[tape_input]
                 position == IF t.move_right THEN configuration.position + 1
                             ELSE IF configuration.position > 0
                                  THEN configuration.position - 1
                                  ELSE configuration.position
                 grown == IF t.move_right /\ position = Len(tape)
                          THEN resize(tape, position + 1)
                          ELSE tape
             IN  [configuration |-> [configuration EXCEPT !.position = position,
                                                          !.state = t.to_state],
                  heap |-> [h EXCEPT ![configuration.tape] = grown]]
        ELSE [configuration |-> [configuration EXCEPT !.position = configuration.position + 1,
                                                      !.state = d.rejecting],
              heap |-> h]

(***************************************************************************)
(* DeterministicTuringMachine.perform_step (tm.py 67-89): the              *)
(* configuration and the heap after the step.                              *)
(***************************************************************************)
D_perform_step(d, configuration, h) ==
    LET tape == h[configuration.tape]
        tape_input == tape[configuration.position + 1]
        state == d.transitions[configuration.state]
    IN  IF tape_input \in DOMAIN state
        THEN LET t == state[tape_input]
                 written == [tape EXCEPT ![configuration.position + 1] = U8(t.tape_output)]
                 position == IF t.move_right THEN configuration.position + 1
                             ELSE IF configuration.position > 0
                                  THEN configuration.position - 1
                                  ELSE configuration.position
                 grown == IF t.move_right /\ position = Len(written)
                          THEN resize(written, position + 1)
                          ELSE written
             IN  [configuration |-> [configuration EXCEPT !.position = position,
                                                          !.state = t.to_state],
                  heap |-> [h EXCEPT ![configuration.tape] = grown]]
        ELSE [configuration |-> [configuration EXCEPT !.position = configuration.position + 1,
                                                      !.state = d.rejecting],
              heap |-> h]

\* as duplicate_configuration, without the copy of the tape
duplicate_configuration_shared(configuration, h) ==
    [configuration |-> TuringMachineConfiguration(configuration.state, configuration.tape,
                                                  configuration.position),
     heap |-> h]

(***************************************************************************)
(* NondeterministicTuringMachine.duplicate_configuration (tm.py 163-164):  *)
(* a new configuration object whose tape is a copy in a fresh buffer.      *)
(***************************************************************************)
duplicate_configuration(configuration, h) ==
    [configuration |-> TuringMachineConfiguration(configuration.state, Len(h) + 1,
                                                  configuration.position),
     heap |-> Append(h, h[configuration.tape])]

\* as check, with an accepting successor yielded like any other
check_never_raises(d, state) ==
    IF state # d.rejecting THEN "yield" ELSE "drop"

\* as check, with every successor yielded
check_yields_all(d, state) == "yield"

\* as check, without the test for the rejecting state
check_keeps_rejecting(d, state) ==
    IF state = d.accepting THEN "accept" ELSE "yield"

\* tm.py 157-161: AcceptException, yield, or neither
check(d, state) ==
    IF state = d.accepting THEN "accept"
    ELSE IF state # d.rejecting THEN "yield"
    ELSE "drop"

\* as in_place, with the first triple working on the parent object
in_place_first(i, trs) == i = 0

\* tm.py 143-144: the last triple works on the parent object itself
in_place(i, trs) == i = Len(trs) - 1

(***************************************************************************)
(* One iteration of the for loop of NondeterministicTuringMachine          *)
(* .perform_step (tm.py 142-161), for the triple trs[i + 1]: the successor *)
(* conf, the parent object as the iteration leaves it, the heap, and what  *)
(* happens to conf: "accept" (AcceptException), "yield" or "drop".         *)
(***************************************************************************)
N_perform_step(d, configuration, i, trs, h) ==
    LET t == trs[i + 1]
        dup == duplicate_configuration(configuration, h)
        same == in_place(i, trs)
        conf0 == IF same THEN configuration ELSE dup.configuration
        h0 == IF same THEN h ELSE dup.heap
        tape == h0[conf0.tape]
        written == [tape EXCEPT ![conf0.position + 1] = U8(t.tape_output)]
        position == IF t.move_right THEN conf0.position + 1
                    ELSE IF conf0.position > 0 THEN conf0.position - 1
                    ELSE conf0.position
        grown == IF t.move_right /\ position = Len(written)
                 THEN resize(written, position + 1)
                 ELSE written
        after == [conf0 EXCEPT !.position = position, !.state = t.to_state]
    IN  [conf |-> after,
         parent |-> IF same THEN after ELSE configuration,
         heap |-> [h0 EXCEPT ![conf0.tape] = grown],
         outcome |-> check(d, after.state)]

\* as lookup, with a missing key read as "stay here": the same state, the
\* symbol written back, no move to the right
lookup_missing_stays(d, configuration, h) ==
    LET tape_input == h[configuration.tape][configuration.position + 1]
        state == d.transitions[configuration.state]
    IN  IF tape_input \in DOMAIN state THEN state[tape_input]
        ELSE <<[to_state |-> configuration.state, tape_output |-> tape_input,
                move_right |-> FALSE]>>

\* as lookup, with only the first triple of the list followed
lookup_first_only(d, configuration, h) ==
    LET tape_input == h[configuration.tape][configuration.position + 1]
        state == d.transitions[configuration.state]
    IN  IF tape_input \in DOMAIN state /\ state[tape_input] # <<>>
        THEN <<state[tape_input][1]>>
        ELSE <<>>

\* tm.py 138-141: the triples perform_step iterates over for a configuration,
\* none when the symbol under the head is no key of transitions[state]
lookup(d, configuration, h) ==
    LET tape_input == h[configuration.tape][configuration.position + 1]
        state == d.transitions[configuration.state]
    IN  IF tape_input \in DOMAIN state THEN state[tape_input] ELSE <<>>

(***************************************************************************)
(* tm.py 128: `configurations = new_configurations` drops the old list;    *)
(* only the buffers of the new live configurations stay reachable.  They   *)
(* are renumbered in order of first use, so a buffer shared by two         *)
(* configurations stays shared.                                            *)
(***************************************************************************)
RECURSIVE addresses(_)
addresses(confs) ==
    IF confs = <<>> THEN <<>>
    ELSE LET front == addresses(SubSeq(confs, 1, Len(confs) - 1))
             a == confs[Len(confs)].tape
         IN  IF \E k \in 1..Len(front) : front[k] = a THEN front ELSE Append(front, a)

collect(confs, h) ==
    LET order == addresses(confs)
        rank(a) == CHOOSE k \in 1..Len(order) : order[k] = a
    IN  [configurations |-> [k \in 1..Len(confs) |->
                                [confs[k] EXCEPT !.tape = rank(confs[k].tape)]],
         heap |-> [k \in 1..Len(order) |-> h[order[k]]]]

\* print_configuration (tm.py 91-100) reads the global name `description`,
\* which tm.py never binds (line 5 imports only the class): evaluating the
\* first argument of the first print raises NameError, nothing is printed.
print_configuration(d, configuration) == "NameError"

(***************************************************************************)
(* The machines and inputs the model draws from.  A description is what    *)
(* the loader hands to the engine: alphabet (index 0 the blank), state     *)
(* names (index 0 the initial state), two distinct halting states, and     *)
(* transitions[state] a mapping from symbol index to a triple (D) or to a  *)
(* list of triples (N).                                                    *)
(***************************************************************************)
Alphabet == <<"_", "1">>
StateNames == <<"q0", "q1", "q2">>
SymIdx == 0..(Len(Alphabet) - 1)
StateIdx == 0..(Len(StateNames) - 1)
Foreign == "x"      \* a symbol that is in no alphabet

Triples == [to_state : StateIdx, tape_output : SymIdx, move_right : BOOLEAN]

PartialFns(D, R) == UNION {[S -> R] : S \in SUBSET D}

\* accepting/rejecting: the usual case, and state 0 itself halting
Designations == {<<1, 2>>, <<0, 1>>, <<1, 0>>}

DRows == PartialFns(SymIdx, Triples)

NLists == {<<>>} \cup {<<t>> : t \in Triples}
                 \cup {<<t, u>> : t \in Triples, u \in Triples}

RowSize(row) == IF DOMAIN row = {} THEN 0
                ELSE IF DOMAIN row = SymIdx THEN Len(row[0]) + Len(row[1])
                ELSE Len(row[CHOOSE k \in DOMAIN row : TRUE])

\* rows of lists of at most two triples: a fork and one more rule, or less
NRows == {row \in PartialFns(SymIdx, NLists) : RowSize(row) <= 3}
NSmallRows == {row \in NRows : RowSize(row) <= 2}

MkDescription(des, row) ==
    [alphabet |-> Alphabet, states |-> StateNames,
     accepting |-> des[1], rejecting |-> des[2],
     transitions |-> [s \in StateIdx |-> IF s = 0 THEN row ELSE <<>>]]

\* the machine of the end-to-end example: q0 on 1 -> (qacc, 1, right)
ExampleDescription ==
    [alphabet |-> <<"_", "0", "1">>, states |-> <<"q0", "qacc", "qrej">>,
     accepting |-> 1, rejecting |-> 2,
     transitions |-> [s \in 0..2 |->
        IF s = 0 THEN 2 :> [to_state |-> 1, tape_output |-> 2, move_right |-> TRUE]
        ELSE <<>>]]

DDescriptions == {MkDescription(des, row) : des \in Designations, row \in DRows}
                     \cup {ExampleDescription}
NDescriptions == {MkDescription(<<1, 2>>, row) : row \in NRows}
                     \cup {MkDescription(des, row) : des \in Designations, row \in NSmallRows}

\* the machines of a session of several calls
DSessionDescriptions == {MkDescription(<<1, 2>>, row) : row \in DRows}
                            \cup {ExampleDescription}
NSessionDescriptions == {MkDescription(<<1, 2>>, row) : row \in NSmallRows}

RECURSIVE SeqsUpTo(_, _)
SeqsUpTo(S, n) ==
    IF n = 0 THEN {<<>>}
    ELSE LET shorter == SeqsUpTo(S, n - 1)
         IN  shorter \cup {Append(q, x) : q \in {r \in shorter : Len(r) = n - 1}, x \in S}

Symbols == {Alphabet[k] : k \in 1..Len(Alphabet)}
Inputs == SeqsUpTo(Symbols \cup {Foreign}, MaxLen)

NoConf == TuringMachineConfiguration(0, 0, 0)
NoCall == [engine |-> "none", description |-> <<>>, input |-> <<>>, pc |-> "idle",
           result |-> NoResult, error |-> "none"]

(***************************************************************************)
(* State after construction of a machine object: nothing has been called.  *)
(***************************************************************************)
InitWith(eng, d, calls) ==
    /\ engine = eng
    /\ description = d
    /\ input = <<>>
    /\ pc = "idle"
    /\ configurations = <<>>
    /\ heap = <<>>
    /\ num_steps = 0
    /\ new_configurations = <<>>
    /\ c_idx = 1
    /\ i_idx = 0
    /\ transitions = <<>>
    /\ conf = NoConf
    /\ result = NoResult
    /\ error = "none"
    /\ tape_arg = None
    /\ steps = 0
    /\ generation = 0
    /\ parents = <<>>
    /\ prev = NoCall
    /\ budget = calls

Init ==
    \/ \E d \in DDescriptions : InitWith("D", d, 1)
    \/ \E d \in NDescriptions : InitWith("N", d, 1)

InitSession ==
    \/ \E d \in DSessionDescriptions : InitWith("D", d, MaxCalls)
    \/ \E d \in NSessionDescriptions : InitWith("N", d, MaxCalls)

(***************************************************************************)
(* process_input up to the loop (tm.py 46-56 and 113-121).                 *)
(***************************************************************************)
\* as empty_as_blank, with a space for the blank symbol
empty_as_blank_space(inp) == IF Len(inp) = 0 THEN <<" ">> ELSE inp

\* tm.py 46-47 and 113-114
empty_as_blank(inp) == IF Len(inp) = 0 THEN <<"_">> ELSE inp

\* the call as it was left: what the caller holds of it afterwards
Outcome ==
    [engine |-> engine, description |-> description, input |-> input, pc |-> pc,
     result |-> result, error |-> error]

\* The body of process_input on the machine object (eng, d); count is the
\* value num_steps is bound to in line 54 / 120.
enter(eng, d, inp, verbose, count) ==
    /\ pc \in {"idle", "done", "error"}
    /\ budget > 0
    /\ budget' = budget - 1
    /\ prev' = IF pc = "idle" THEN NoCall ELSE Outcome
    /\ input' = inp
    /\ LET e == encode(d.alphabet, empty_as_blank(inp))
           configuration == TuringMachineConfiguration(0, 1, 0)
       IN  IF ~e.ok
           THEN /\ pc' = "error"
                /\ error' = "TuringMachineError"
                /\ configurations' = <<>>
                /\ heap' = <<>>
                /\ parents' = <<>>
           ELSE /\ configurations' = <<configuration>>
                /\ heap' = <<e.tape>>
                /\ parents' = IF eng = "N"
                              THEN <<Value(configuration, <<e.tape>>)>>
                              ELSE <<>>
                /\ IF eng = "D" /\ verbose
                   THEN /\ pc' = "error"
                        /\ error' = print_configuration(d, configuration)
                   ELSE /\ pc' = "running"
                        /\ error' = "none"
    /\ num_steps' = count
    /\ new_configurations' = <<>>
    /\ c_idx' = 1
    /\ i_idx' = 0
    /\ transitions' = <<>>
    /\ conf' = NoConf
    /\ result' = NoResult
    /\ tape_arg' = None
    /\ steps' = 0
    /\ generation' = 0

\* as process_input, with num_steps kept on the object from call to call
process_input_keeps_count(inp, verbose) ==
    /\ enter(engine, description, inp, verbose, num_steps)
    /\ UNCHANGED <<engine, description>>

process_input(inp, verbose) ==
    /\ enter(engine, description, inp, verbose, 0)
    /\ UNCHANGED <<engine, description>>

Call == \E inp \in Inputs, verbose \in BOOLEAN : process_input(inp, verbose)

\* the calls of a session: the empty input, one symbol, one foreign symbol
SessionInputs == {inp \in Inputs : Len(inp) <= 1}
SessionCall == \E inp \in SessionInputs, verbose \in BOOLEAN : process_input(inp, verbose)

(***************************************************************************)
(* One iteration of the deterministic loop (tm.py 57-65).                  *)
(***************************************************************************)
D_loop ==
    /\ pc = "running"
    /\ engine = "D"
    /\ num_steps < MaxSteps
    /\ LET r == D_perform_step(description, configurations[1], heap)
           configuration == r.configuration
           tape == decode(description.alphabet, r.heap[configuration.tape])
       IN  /\ configurations' = <<configuration>>
           /\ heap' = r.heap
           /\ IF configuration.state = description.accepting
              THEN /\ result' = TuringMachineResult(num_steps, TRUE, tape)
                   /\ tape_arg' = tape
                   /\ pc' = "done"
                   /\ num_steps' = num_steps
              ELSE IF configuration.state = description.rejecting
              THEN /\ result' = TuringMachineResult(num_steps, FALSE, tape)
                   /\ tape_arg' = tape
                   /\ pc' = "done"
                   /\ num_steps' = num_steps
              ELSE /\ num_steps' = num_steps + 1
                   /\ UNCHANGED <<result, tape_arg, pc>>
    /\ steps' = steps + 1
    /\ UNCHANGED <<engine, description, input, new_configurations, c_idx, i_idx,
                   transitions, conf, error, generation, parents, prev, budget>>

(***************************************************************************)
(* The nondeterministic loop (tm.py 122-134).  list(chain.from_iterable(.)) *)
(* runs the generators perform_step(c) one after the other; each action    *)
(* below is one step of that: a generator that yields nothing, one         *)
(* iteration of a generator's for loop, and the end of the generation.     *)
(***************************************************************************)
\* perform_step(c) finds no triple (no key, or an empty list) and ends
N_no_transition ==
    /\ pc = "running"
    /\ engine = "N"
    /\ num_steps < MaxSteps
    /\ c_idx <= Len(configurations)
    /\ i_idx = 0
    /\ lookup(description, configurations[c_idx], heap) = <<>>
    /\ c_idx' = c_idx + 1
    /\ UNCHANGED <<engine, description, input, pc, configurations, heap, num_steps,
                   new_configurations, i_idx, transitions, conf, result, error,
                   tape_arg, steps, generation, parents, prev, budget>>

\* one iteration of the for loop of perform_step(c)
N_iteration ==
    /\ pc = "running"
    /\ engine = "N"
    /\ num_steps < MaxSteps
    /\ c_idx <= Len(configurations)
    /\ LET trs == IF i_idx = 0
                  THEN lookup(description, configurations[c_idx], heap)
                  ELSE transitions
       IN  /\ trs # <<>>
           /\ LET r == N_perform_step(description, configurations[c_idx], i_idx, trs, heap)
              IN  /\ configurations' = [configurations EXCEPT ![c_idx] = r.parent]
                  /\ heap' = r.heap
                  /\ conf' = r.conf
                  /\ IF r.outcome = "accept"
                     THEN /\ result' = TuringMachineResult(num_steps, TRUE, None)
                          /\ pc' = "done"
                          /\ transitions' = trs
                          /\ i_idx' = i_idx
                          /\ UNCHANGED <<new_configurations, c_idx>>
                     ELSE /\ new_configurations' =
                                 IF r.outcome = "yield"
                                 THEN Append(new_configurations, r.conf)
                                 ELSE new_configurations
                          /\ IF i_idx + 1 = Len(trs)
                             THEN /\ c_idx' = c_idx + 1
                                  /\ i_idx' = 0
                                  /\ transitions' = <<>>
                             ELSE /\ c_idx' = c_idx
                                  /\ i_idx' = i_idx + 1
                                  /\ transitions' = trs
                          /\ UNCHANGED <<result, pc>>
    /\ steps' = steps + 1
    /\ UNCHANGED <<engine, description, input, num_steps, error, tape_arg,
                   generation, parents, prev, budget>>

\* every generator is exhausted: tm.py 128-134
N_end_generation ==
    /\ pc = "running"
    /\ engine = "N"
    /\ c_idx = Len(configurations) + 1
    /\ LET live == collect(new_configurations, heap)
       IN  /\ configurations' = live.configurations
           /\ heap' = live.heap
           /\ parents' = [k \in 1..Len(live.configurations) |->
                              Value(live.configurations[k], live.heap)]
    /\ new_configurations' = <<>>
    /\ c_idx' = 1
    /\ generation' = generation + 1
    /\ IF Len(new_configurations) = 0
       THEN /\ result' = TuringMachineResult(num_steps, FALSE, None)
            /\ pc' = "done"
            /\ num_steps' = num_steps
       ELSE /\ num_steps' = num_steps + 1
            /\ UNCHANGED <<result, pc>>
    /\ conf' = NoConf
    /\ UNCHANGED <<engine, description, input, i_idx, transitions, error,
                   tape_arg, steps, prev, budget>>

Next == Call \/ D_loop \/ N_no_transition \/ N_iteration \/ N_end_generation

Spec == Init /\ [][Next]_vars

NextSession == SessionCall \/ D_loop \/ N_no_transition \/ N_iteration \/ N_end_generation

SpecSession == InitSession /\ [][NextSession]_vars

(***************************************************************************)
(* The constructor of TuringMachineResult on its own: any tape of letters. *)
(***************************************************************************)
Letters == {"_", "0", "1"}
ResultTapes == (SeqsUpTo(Letters, MaxTape) \ {<<>>}) \cup {None}

InitResult ==
    /\ \E eng \in {"D", "N"} : engine = eng
    /\ description = ExampleDescription
    /\ input = <<>>
    /\ pc = "construct"
    /\ configurations = <<>>
    /\ heap = <<>>
    /\ \E n \in 0..1 : num_steps = n
    /\ new_configurations = <<>>
    /\ c_idx = 1
    /\ i_idx = 0
    /\ transitions = <<>>
    /\ conf = NoConf
    /\ result = NoResult
    /\ error = "none"
    /\ \E tape \in ResultTapes : tape_arg = tape
    /\ steps = 0
    /\ generation = 0
    /\ parents = <<>>
    /\ prev = NoCall
    /\ budget = 0

Construct ==
    /\ pc = "construct"
    /\ \E accepted \in BOOLEAN : result' = TuringMachineResult(num_steps, accepted, tape_arg)
    /\ pc' = "done"
    /\ UNCHANGED <<engine, description, input, configurations, heap, num_steps,
                   new_configurations, c_idx, i_idx, transitions, conf, error,
                   tape_arg, steps, generation, parents, prev, budget>>

NextResult == Construct

SpecResult == InitResult /\ [][NextResult]_vars

(***************************************************************************)
(* The machine a description denotes, on a tape that is blank to the right *)
(* without end: the semantics the engines are checked against.  A tape is  *)
(* the written prefix; a cell beyond it reads as blank.  The halting       *)
(* states are entered by a transition; the start state is stepped from     *)
(* whatever it is designated.                                              *)
(***************************************************************************)
RefIndex(alphabet, x) == (CHOOSE k \in 1..Len(alphabet) : alphabet[k] = x) - 1

RefRead(tape, p) == IF p < Len(tape) THEN tape[p + 1] ELSE 0

RefWrite(tape, p, v) ==
    [k \in 1..(IF p + 1 > Len(tape) THEN p + 1 ELSE Len(tape)) |->
        IF k = p + 1 THEN v ELSE RefRead(tape, k - 1)]

RECURSIVE RefStrip(_)
RefStrip(tape) ==
    IF tape # <<>> /\ tape[Len(tape)] = 0
    THEN RefStrip(SubSeq(tape, 1, Len(tape) - 1))
    ELSE tape

RefNorm(c) == [c EXCEPT !.tape = RefStrip(c.tape)]

RefStart(d, inp) ==
    [state |-> 0,
     tape |-> RefStrip([k \in 1..Len(inp) |-> RefIndex(d.alphabet, inp[k])]),
     position |-> 0]

RefMove(c, t) ==
    RefNorm([state |-> t.to_state,
             tape |-> RefWrite(c.tape, c.position, t.tape_output),
             position |-> IF t.move_right THEN c.position + 1
                          ELSE IF c.position = 0 THEN 0 ELSE c.position - 1])

RefDefined(d, c) == RefRead(c.tape, c.position) \in DOMAIN d.transitions[c.state]
RefRule(d, c) == d.transitions[c.state][RefRead(c.tape, c.position)]

\* The deterministic path from c, at most fuel transitions long: how it ends
\* ("accept", "reject", or "none" when it has not ended) and after how many
\* transitions, n of them having been made before c.
RECURSIVE RefRunD(_, _, _, _)
RefRunD(d, c, n, fuel) ==
    IF fuel = 0 THEN [verdict |-> "none", length |-> n]
    ELSE IF ~RefDefined(d, c) THEN [verdict |-> "reject", length |-> n + 1]
    ELSE LET c2 == RefMove(c, RefRule(d, c))
         IN  IF c2.state = d.accepting THEN [verdict |-> "accept", length |-> n + 1]
             ELSE IF c2.state = d.rejecting THEN [verdict |-> "reject", length |-> n + 1]
             ELSE RefRunD(d, c2, n + 1, fuel - 1)

RefD == RefRunD(description, RefStart(description, input), 0, MaxSteps)

\* The nondeterministic choices: the set of configurations one transition away
RefSuccessors(d, c) ==
    IF RefDefined(d, c)
    THEN {RefMove(c, RefRule(d, c)[k]) : k \in 1..Len(RefRule(d, c))}
    ELSE {}

\* Breadth-first over all choices, at most fuel transitions deep: "accept"
\* with the length of a shortest accepting path, "dead" with the depth at
\* which every path has ended without accepting, or "none".
RECURSIVE RefSearchN(_, _, _, _)
RefSearchN(d, frontier, n, fuel) ==
    IF fuel = 0 THEN [verdict |-> "none", length |-> n]
    ELSE LET succ == UNION {RefSuccessors(d, c) : c \in frontier}
             live == {c \in succ : c.state # d.rejecting}
         IN  IF \E c \in succ : c.state = d.accepting
             THEN [verdict |-> "accept", length |-> n + 1]
             ELSE IF live = {} THEN [verdict |-> "dead", length |-> n + 1]
             ELSE RefSearchN(d, live, n + 1, fuel - 1)

RefN == RefSearchN(description, {RefStart(description, input)}, 0, MaxSteps)

\* the call was made without tracing: a traced deterministic call ends in the
\* NameError of print_configuration before its first step
Returned == pc = "done"
Untraced == error # "NameError"

(***************************************************************************)
(* C1: a deterministic call on a valid input returns accepted=True exactly *)
(* when the machine's path from (state 0, input, position 0) enters the    *)
(* accepting state, and accepted=False exactly when it enters the          *)
(* rejecting state first, by a transition or by a missing one; it returns  *)
(* with the transition that enters the halting state, not before and not   *)
(* after.                                                                  *)
(***************************************************************************)
C1_DeterministicVerdict ==
    (engine = "D" /\ pc \in {"running", "done"}) =>
        /\ Returned => /\ RefD.verdict \in {"accept", "reject"}
                       /\ result.accepted <=> RefD.verdict = "accept"
                       /\ ~result.accepted <=> RefD.verdict = "reject"
                       /\ steps = RefD.length
        /\ pc = "running" => (RefD.verdict = "none" \/ RefD.length > steps)

C1_Witness ==
    /\ engine = "D" /\ Returned /\ result.accepted
    /\ steps = 3
    /\ heap[1] # encode(description.alphabet, empty_as_blank(input)).tape

(***************************************************************************)
(* C2: the num_steps a deterministic call returns is the number of         *)
(* transitions applied, the halting one included; the example machine on   *)
(* input "1" returns num_steps=1, accepted=True, tape=["1"].               *)
(***************************************************************************)
C2_NumStepsCountsTransitions ==
    (engine = "D" /\ Returned) =>
        /\ result.num_steps = steps
        /\ (description = ExampleDescription /\ input = <<"1">>) =>
               result = [num_steps |-> 1, accepted |-> TRUE, tape |-> <<"1">>]

\* num_steps and generation change only when a generation ends
AtGenerationStart == pc = "running" /\ c_idx = 1 /\ i_idx = 0

(***************************************************************************)
(* C3: a nondeterministic call returns accepted=True exactly when some     *)
(* sequence of choices leads from (state 0, input, position 0) to the      *)
(* accepting state: it never accepts without such a path, never rejects    *)
(* while one exists, and does not run past the depth of one.               *)
(***************************************************************************)
C3_NondeterministicVerdict ==
    (engine = "N" /\ pc \in {"running", "done"}) =>
        /\ Returned => /\ RefN.verdict \in {"accept", "dead"}
                       /\ result.accepted <=> RefN.verdict = "accept"
        /\ AtGenerationStart => (RefN.verdict = "none" \/ RefN.length > num_steps)

C3_Witness ==
    /\ engine = "N" /\ Returned /\ result.accepted
    /\ generation = 2
    /\ Len(configurations) >= 2

(***************************************************************************)
(* C4: when a nondeterministic call accepts, num_steps is the number of    *)
(* transitions of a shortest accepting path.                               *)
(***************************************************************************)
C4_NumStepsIsShortestPath ==
    (engine = "N" /\ Returned /\ result.accepted) => result.num_steps = RefN.length

(***************************************************************************)
(* C5: a nondeterministic call returns accepted=False exactly when a       *)
(* generation g (counted from 0) ends with no successor accepting and no   *)
(* successor surviving, and then num_steps = g; no configuration in the    *)
(* rejecting state is among the successors kept for the next generation.   *)
(***************************************************************************)
C5_RejectWhenNoSurvivor ==
    (engine = "N" /\ pc \in {"running", "done"}) =>
        /\ (Returned /\ ~result.accepted) =>
               /\ RefN.verdict = "dead"
               /\ result.num_steps = RefN.length - 1
               /\ generation = RefN.length
               /\ new_configurations = <<>>
        /\ (AtGenerationStart /\ RefN.verdict = "dead") => generation < RefN.length
        /\ pc = "running" =>
               /\ \A k \in 1..Len(new_configurations) :
                      new_configurations[k].state # description.rejecting
               /\ generation >= 1 =>
                      \A k \in c_idx..Len(configurations) :
                          configurations[k].state # description.rejecting

C5_Witness ==
    /\ engine = "N" /\ Returned /\ ~result.accepted
    /\ result.num_steps = 2
    /\ steps >= 4

(***************************************************************************)
(* C6: fork isolation.  While a generation is being stepped, the           *)
(* configurations still to be stepped, the parent whose triples are being  *)
(* applied included, are as they were when the generation began; the       *)
(* successors kept so far are exactly the surviving successors of the      *)
(* parents as they were then, in order; and no two of all these            *)
(* configurations refer to the same tape buffer.                           *)
(***************************************************************************)
\* the triples applied so far in this generation: (parent, triple) in order
RefRow(d, c) == IF RefDefined(d, c) THEN RefRule(d, c) ELSE <<>>

RECURSIVE RefKept(_, _, _, _)
RefKept(d, ps, j, i) ==
    IF j = 0 THEN <<>>
    ELSE IF i = 0 THEN RefKept(d, ps, j - 1,
                               IF j = 1 THEN 0 ELSE Len(RefRow(d, RefNorm(ps[j - 1]))))
    ELSE LET c2 == RefMove(RefNorm(ps[j]), RefRow(d, RefNorm(ps[j]))[i])
             before == RefKept(d, ps, j, i - 1)
         IN  IF c2.state \in {d.accepting, d.rejecting} THEN before
             ELSE Append(before, c2)

LiveNow == new_configurations \o SubSeq(configurations, c_idx, Len(configurations))

C6_ForkIsolation ==
    (engine = "N" /\ pc = "running") =>
        /\ \A j \in c_idx..Len(configurations) :
               Value(configurations[j], heap) = parents[j]
        /\ [k \in 1..Len(new_configurations) |->
               RefNorm(Value(new_configurations[k], heap))]
             = IF c_idx > Len(parents)
               THEN RefKept(description, parents, Len(parents),
                            Len(RefRow(description, RefNorm(parents[Len(parents)]))))
               ELSE RefKept(description, parents, c_idx, i_idx)
        /\ \A k, m \in 1..Len(LiveNow) : k # m => LiveNow[k].tape # LiveNow[m].tape

C6_Witness ==
    /\ engine = "N" /\ pc = "running"
    /\ generation >= 1
    /\ c_idx = 2 /\ i_idx = 1
    /\ Len(new_configurations) >= 3
    /\ heap[new_configurations[1].tape] # heap[new_configurations[2].tape]
    /\ Len(heap[new_configurations[1].tape]) # Len(heap[new_configurations[3].tape])

(***************************************************************************)
(* C7: an input with a symbol that is not in the alphabet makes either     *)
(* engine raise TuringMachineError with no configuration created, no step  *)
(* made and no result returned; an input of alphabet symbols never raises  *)
(* that error.                                                             *)
(***************************************************************************)
HasForeignSymbol ==
    \E k \in 1..Len(input) :
        input[k] \notin {description.alphabet[m] : m \in 1..Len(description.alphabet)}

C7_InvalidInput ==
    (pc \in {"running", "done", "error"}) =>
        /\ HasForeignSymbol =>
               /\ pc = "error" /\ error = "TuringMachineError"
               /\ configurations = <<>> /\ heap = <<>>
               /\ steps = 0 /\ result = NoResult
        /\ ~HasForeignSymbol => error # "TuringMachineError"

C7_Witness ==
    /\ pc = "error" /\ error = "TuringMachineError"
    /\ Len(input) = 2 /\ input[1] = "1" /\ input[2] = Foreign

(***************************************************************************)
(* C8: the tape a result stores is the tape it was given without its       *)
(* trailing blanks, or ["_"] when the tape was all blanks: it is never     *)
(* empty and ends in a blank only when it is ["_"].                        *)
(***************************************************************************)
RefTrim(tape) ==
    IF \A k \in 1..Len(tape) : tape[k] = "_" THEN <<"_">>
    ELSE SubSeq(tape, 1, CHOOSE k \in 1..Len(tape) :
                    tape[k] # "_" /\ \A m \in (k + 1)..Len(tape) : tape[m] = "_")

C8_TapeTrimmed ==
    (Returned /\ tape_arg # None) =>
        /\ result.tape = RefTrim(tape_arg)
        /\ result.tape # <<>>
        /\ result.tape[Len(result.tape)] = "_" => result.tape = <<"_">>

C8_Witness ==
    /\ Returned
    /\ tape_arg = <<"1", "_", "0", "_">>
    /\ result.tape = <<"1", "_", "0">>

(***************************************************************************)
(* C9: in both engines, applying a move-left triple at position 0 leaves   *)
(* the position 0; applying a move-right triple on the last cell makes the *)
(* tape one cell longer, the new cell blank, the cell written holding the  *)
(* output and every other cell as before, with the head on the new cell.   *)
(***************************************************************************)
BoundaryOK(before, t, after) ==
    /\ after.position >= 0
    /\ (~t.move_right /\ before.position = 0) =>
           /\ after.position = 0
           /\ Len(after.tape) = Len(before.tape)
    /\ (t.move_right /\ before.position = Len(before.tape) - 1) =>
           /\ Len(after.tape) = Len(before.tape) + 1
           /\ after.tape[Len(after.tape)] = 0
           /\ \A k \in 1..Len(before.tape) :
                  after.tape[k] = IF k = before.position + 1 THEN t.tape_output
                                  ELSE before.tape[k]
           /\ after.position = Len(after.tape) - 1

C9_Step ==
    /\ (engine = "D" /\ steps' = steps + 1) =>
           LET before == Value(configurations[1], heap)
               row == description.transitions[before.state]
               tape_input == before.tape[before.position + 1]
           IN  tape_input \in DOMAIN row =>
                   BoundaryOK(before, row[tape_input], Value(configurations'[1], heap'))
    /\ (engine = "N" /\ steps' = steps + 1) =>
           BoundaryOK(Value(configurations[c_idx], heap),
                      (IF i_idx = 0 THEN lookup(description, configurations[c_idx], heap)
                       ELSE transitions)[i_idx + 1],
                      Value(conf', heap'))

C9_Boundary == [][C9_Step]_vars

C9_Witness ==
    /\ engine = "N" /\ pc = "running" /\ steps >= 2
    /\ conf # NoConf
    /\ conf.position = Len(heap[conf.tape]) - 1
    /\ Len(heap[conf.tape]) = Len(input) + 2
    /\ heap[conf.tape][Len(input) + 1] # 0

(***************************************************************************)
(* C10: on one machine, the call with the empty input and the call with    *)
(* the input ["_"] end alike: the same result, or the same error.          *)
(***************************************************************************)
C10_EmptyIsBlank ==
    (/\ prev.pc \in {"done", "error"} /\ pc \in {"done", "error"}
     /\ {prev.input, input} = {<<>>, <<"_">>}
     /\ prev.error # "NameError" /\ error # "NameError") =>
        /\ pc = prev.pc
        /\ error = prev.error
        /\ result = prev.result

C10_Witness ==
    /\ prev.pc = "done" /\ pc = "done"
    /\ prev.input = <<>> /\ input = <<"_">>
    /\ engine = "D" /\ result.accepted
    /\ result.num_steps = 1
    /\ result.tape = <<"1">>

\* two finished calls on one machine object with the same input
SameInputTwice ==
    /\ prev.pc \in {"done", "error"} /\ pc \in {"done", "error"}
    /\ prev.input = input

SameOutcome ==
    /\ pc = prev.pc
    /\ error = prev.error
    /\ result = prev.result

(***************************************************************************)
(* C11: tracing changes nothing: two calls on one machine with the same    *)
(* input end the same way (same result, no error that the other call does  *)
(* not raise), whatever their verbose arguments were.                      *)
(***************************************************************************)
C11_TracingChangesNothing == SameInputTwice => SameOutcome

(***************************************************************************)
(* C12: a call leaves the description and the caller's input as they were, *)
(* and two calls with the same arguments on one machine end the same way:  *)
(* every step keeps the description, only a new call brings a new input,   *)
(* the previous call was made on the same engine and description, and the  *)
(* outcomes of two calls with the same input are equal.  (A deterministic  *)
(* call that ends in NameError was traced, one that does not was not, or   *)
(* its input was invalid and verbose was never looked at.)                 *)
(***************************************************************************)
C12_Step ==
    /\ description' = description
    /\ engine' = engine
    /\ budget' = budget => input' = input
    /\ prev'.pc # "idle" => (prev'.description = description' /\ prev'.engine = engine')
    /\ (SameInputTwice /\ (prev.error = "NameError" <=> error = "NameError"))' => SameOutcome'

C12_Independent == [][C12_Step]_vars

C12_Witness ==
    /\ SameInputTwice /\ pc = "done"
    /\ engine = "N" /\ input = <<"1">>
    /\ result.num_steps >= 1
    /\ description = prev.description

\* the head of a configuration is on a cell of its tape
HeadOnTape(configuration, h) ==
    /\ 0 <= configuration.position
    /\ configuration.position < Len(h[configuration.tape])

(***************************************************************************)
(* C13: after every completed perform_step, in the terminal state of a     *)
(* deterministic run too, every configuration has 0 <= position <          *)
(* len(tape): the stepped ones, the yielded successors, and the last       *)
(* successor made.                                                         *)
(***************************************************************************)
C13_HeadPosition ==
    pc \in {"running", "done"} =>
        /\ \A k \in 1..Len(configurations) : HeadOnTape(configurations[k], heap)
        /\ \A k \in 1..Len(new_configurations) : HeadOnTape(new_configurations[k], heap)
        /\ conf # NoConf => HeadOnTape(conf, heap)

\* the deterministic configuration has no transition for the symbol under its head
MissingTransition ==
    LET configuration == configurations[1]
        tape_input == heap[configuration.tape][configuration.position + 1]
    IN  tape_input \notin DOMAIN description.transitions[configuration.state]

(***************************************************************************)
(* C14: a deterministic step from a configuration with no transition for   *)
(* the symbol under the head writes no cell, moves the head one cell to    *)
(* the right, appends one blank cell when the head was on the last cell,   *)
(* sets the rejecting state, and the call returns rejected with that step. *)
(***************************************************************************)
C14_Step ==
    (engine = "D" /\ pc = "running" /\ steps' = steps + 1 /\ MissingTransition) =>
        LET before == configurations[1]
            tape == heap[before.tape]
            after == configurations'[1]
        IN  /\ after.position = before.position + 1
            /\ after.state = description.rejecting
            /\ heap'[after.tape] = IF before.position = Len(tape) - 1
                                   THEN Append(tape, 0)
                                   ELSE tape
            /\ pc' = "done"
            /\ ~result'.accepted

C14_ImplicitReject == [][C14_Step]_vars

(***************************************************************************)
(* Two machines side by side: a caller runs one machine on an input, then  *)
(* builds a second machine from the same description - for the other       *)
(* engine, or with the triples of its lists in another order - and runs it *)
(* on the same input.  prev keeps the first machine and its outcome.       *)
(***************************************************************************)
\* the description a caller hands to the nondeterministic engine for a
\* deterministic one: each triple as a one-element list
Lift(d) ==
    [d EXCEPT !.transitions =
        [s \in DOMAIN d.transitions |->
            [a \in DOMAIN d.transitions[s] |-> <<d.transitions[s][a]>>]]]

SingleValued(d) ==
    \A s \in DOMAIN d.transitions :
        \A a \in DOMAIN d.transitions[s] : Len(d.transitions[s][a]) = 1

Unlift(d) ==
    [d EXCEPT !.transitions =
        [s \in DOMAIN d.transitions |->
            [a \in DOMAIN d.transitions[s] |-> d.transitions[s][a][1]]]]

\* the orders a list of triples can be written in
Orders(list) == {[k \in 1..Len(list) |-> list[f[k]]] : f \in Permutations(1..Len(list))}

PermutedRows(row) ==
    {r \in [DOMAIN row -> UNION {Orders(row[a]) : a \in DOMAIN row}] :
        \A a \in DOMAIN row : r[a] \in Orders(row[a])}

\* the descriptions that differ from d in the order of triples inside lists
Permuted(d) ==
    {[d EXCEPT !.transitions = t] :
        t \in {u \in [DOMAIN d.transitions ->
                         UNION {PermutedRows(d.transitions[s]) : s \in DOMAIN d.transitions}] :
                  \A s \in DOMAIN d.transitions : u[s] \in PermutedRows(d.transitions[s])}}

\* list2 is list1 in some order
Reordered(list1, list2) ==
    /\ Len(list1) = Len(list2)
    /\ \E f \in Permutations(1..Len(list1)) : \A k \in 1..Len(list1) : list2[k] = list1[f[k]]

\* d2 differs from d1 at most in the order of the triples inside the lists
SameUpToOrder(d1, d2) ==
    /\ [d1 EXCEPT !.transitions = <<>>] = [d2 EXCEPT !.transitions = <<>>]
    /\ \A s \in DOMAIN d1.transitions :
           /\ DOMAIN d1.transitions[s] = DOMAIN d2.transitions[s]
           /\ \A a \in DOMAIN d1.transitions[s] :
                  Reordered(d1.transitions[s][a], d2.transitions[s][a])

OtherMachines ==
    IF engine = "D"
    THEN {<<"N", Lift(description)>>}
    ELSE {<<"N", d>> : d \in Permuted(description)}
             \cup (IF SingleValued(description) THEN {<<"D", Unlift(description)>>} ELSE {})

\* rows of at most two triples (two single rules, or one fork), and the
\* machines that run right over the 1s and fork on the blank
Scan == [to_state |-> 0, tape_output |-> 1, move_right |-> TRUE]
ScanRows == {row \in NRows : DOMAIN row = SymIdx /\ row[1] = <<Scan>> /\ Len(row[0]) = 2}
NPairDescriptions == {MkDescription(<<1, 2>>, row) : row \in NSmallRows \cup ScanRows}

InitPair ==
    \/ \E d \in DDescriptions : InitWith("D", d, 2)
    \/ \E d \in NPairDescriptions : InitWith("N", d, 2)

FirstCall ==
    /\ budget = 2
    /\ Call

\* the second machine is constructed (tm.py 42-43, 109-110) and called on
\* the input of the first call, untraced
SecondCall ==
    /\ budget = 1
    /\ \E m \in OtherMachines :
           /\ enter(m[1], m[2], input, FALSE, 0)
           /\ engine' = m[1]
           /\ description' = m[2]

NextPair == FirstCall \/ SecondCall \/ D_loop \/ N_no_transition \/ N_iteration
                \/ N_end_generation

SpecPair == InitPair /\ [][NextPair]_vars

\* the second call against the result of the first, which has returned:
\* the same verdict and count, and no running on where the first had ended
AgreesWithFirst ==
    /\ pc # "error"
    /\ pc = "done" => /\ result.accepted = prev.result.accepted
                      /\ result.num_steps = prev.result.num_steps
    /\ pc = "running" => num_steps <= prev.result.num_steps

(***************************************************************************)
(* C15: for a machine with exactly one triple for each defined pair, given *)
(* as triples to the deterministic engine and as one-element lists to the  *)
(* nondeterministic one, the two engines return the same verdict and the   *)
(* same num_steps on the same input, and neither runs on after the point   *)
(* at which the other has returned.                                        *)
(***************************************************************************)
C15_EnginesAgree ==
    (/\ prev.pc = "done" /\ prev.engine # engine /\ prev.input = input
     /\ LET dD == IF engine = "D" THEN description ELSE prev.description
            dN == IF engine = "N" THEN description ELSE prev.description
        IN  SingleValued(dN) /\ dN = Lift(dD)) =>
        AgreesWithFirst

C15_Witness ==
    /\ prev.pc = "done" /\ prev.engine = "N" /\ engine = "D" /\ pc = "done"
    /\ ~result.accepted
    /\ result.num_steps >= 1
    /\ steps = 2

(***************************************************************************)
(* C16: two nondeterministic machines that differ only in the order of the *)
(* triples inside their transition lists return the same verdict and the   *)
(* same num_steps on the same input, and neither runs on after the point   *)
(* at which the other has returned.                                        *)
(***************************************************************************)
C16_OrderIndependent ==
    (/\ prev.pc = "done" /\ prev.engine = "N" /\ engine = "N" /\ prev.input = input
     /\ SameUpToOrder(prev.description, description)) =>
        AgreesWithFirst

C16_Witness ==
    /\ prev.pc = "done" /\ prev.engine = "N" /\ engine = "N" /\ pc = "done"
    /\ description # prev.description
    /\ SameUpToOrder(prev.description, description)
    /\ result.accepted
    /\ result.num_steps >= 1

\* the triples perform_step iterates over for the k-th configuration of the
\* generation, as it was when the generation began
TriplesOf(k) == RefRow(description, RefNorm(parents[k]))

\* in the order of the exploration, none of the triples up to the i-th of
\* the j-th configuration leads to the accepting state
NoneAcceptsUpTo(j, i) ==
    \A k \in 1..Len(parents) :
        \A m \in 1..Len(TriplesOf(k)) :
            (k < j \/ (k = j /\ m <= i)) => TriplesOf(k)[m].to_state # description.accepting

(***************************************************************************)
(* C17: the nondeterministic exploration stops at the first successor in   *)
(* the accepting state: while it runs, no triple applied so far led to the *)
(* accepting state; when it has accepted, the triple applied last is the   *)
(* first one in exploration order that does, the triples and the           *)
(* configurations after it were not stepped, no generation was completed   *)
(* after it, and the result is accepted=True with tape=None.               *)
(***************************************************************************)
C17_ShortCircuit ==
    (engine = "N" /\ pc \in {"running", "done"}) =>
        /\ pc = "running" => NoneAcceptsUpTo(c_idx, i_idx)
        /\ (Returned /\ result.accepted) =>
               /\ NoneAcceptsUpTo(c_idx, i_idx)
               /\ TriplesOf(c_idx)[i_idx + 1].to_state = description.accepting
               /\ conf.state = description.accepting
               /\ \A k \in (c_idx + 1)..Len(configurations) :
                      Value(configurations[k], heap) = parents[k]
               /\ generation = result.num_steps
               /\ result.tape = None

C17_Witness ==
    /\ engine = "N" /\ Returned /\ result.accepted
    /\ generation >= 1
    /\ c_idx < Len(configurations)
    /\ TriplesOf(c_idx + 1) # <<>>

Halting == {description.accepting, description.rejecting}

(***************************************************************************)
(* C19: in a nondeterministic run, the configurations a generation g >= 1  *)
(* begins with, and the successors kept for the next generation, are in    *)
(* neither the accepting nor the rejecting state; so the configuration     *)
(* being stepped is in a halting state only if it is the initial one.      *)
(***************************************************************************)
C19_LiveNotHalted ==
    (engine = "N" /\ pc = "running") =>
        /\ generation >= 1 => \A k \in 1..Len(parents) : parents[k].state \notin Halting
        /\ \A k \in 1..Len(new_configurations) : new_configurations[k].state \notin Halting
        /\ \A k \in c_idx..Len(configurations) :
               configurations[k].state \in Halting => (generation = 0 /\ k = 1)

C19_Witness ==
    /\ engine = "N" /\ pc = "running"
    /\ description.accepting = 0
    /\ generation >= 1
    /\ Len(parents) >= 2
    /\ c_idx = 2

\* what one step may do to the configuration it is made on, both by value
Local(before, after) ==
    /\ Len(after.tape) >= Len(before.tape)
    /\ Len(after.tape) <= Len(before.tape) + 1
    /\ \A k \in 1..Len(before.tape) :
           k # before.position + 1 => after.tape[k] = before.tape[k]
    /\ after.position - before.position \in {-1, 0, 1}

\* a configuration n transitions after the initial one
Within(configuration, h, n) ==
    /\ Len(h[configuration.tape]) <= Len(empty_as_blank(input)) + n
    /\ configuration.position <= n

C20_Bound ==
    /\ (engine = "D" /\ pc \in {"running", "done"}) => Within(configurations[1], heap, steps)
    /\ (engine = "N" /\ pc \in {"running", "done"}) =>
           /\ \A k \in 1..Len(parents) :
                  /\ Len(parents[k].tape) <= Len(empty_as_blank(input)) + generation
                  /\ parents[k].position <= generation
           /\ \A k \in 1..Len(new_configurations) :
                  Within(new_configurations[k], heap, generation + 1)
           /\ conf # NoConf => Within(conf, heap, generation + 1)

(***************************************************************************)
(* C20: one perform_step changes at most the cell that was under the head, *)
(* never shortens the tape, lengthens it by at most one cell and moves the *)
(* head by at most one cell - in the nondeterministic engine for each      *)
(* successor against the configuration stepped; and a configuration n      *)
(* transitions from the initial one has len(tape) <= len(initial tape) + n *)
(* and position <= n.                                                      *)
(***************************************************************************)
C20_Step ==
    /\ (engine = "D" /\ pc = "running" /\ steps' = steps + 1) =>
           Local(Value(configurations[1], heap), Value(configurations'[1], heap'))
    /\ (engine = "N" /\ pc = "running" /\ steps' = steps + 1) =>
           Local(parents[c_idx], Value(conf', heap'))
    /\ C20_Bound'

C20_Locality == [][C20_Step]_vars

C20_Witness ==
    /\ engine = "D" /\ pc = "running"
    /\ steps = 3
    /\ configurations[1].position = 3
    /\ Len(heap[1]) = Len(empty_as_blank(input)) + 3
    /\ \E k \in 1..Len(heap[1]) : heap[1][k] # 0

(***************************************************************************)
(* Large alphabets.  The tape is a numpy array of dtype uint8 (tm.py 49-   *)
(* 50): a symbol index above 255 does not fit a cell.  What np.array does  *)
(* with it depends on the numpy installed: older versions store the index  *)
(* modulo 256, newer ones raise OverflowError, which process_input does    *)
(* not catch.  The machines here write only the symbols 0 and 1, so the    *)
(* conversion of the input is the one place where an index can overflow.   *)
(***************************************************************************)
AlphabetSizes == {2, 256, 257}

\* "_", "1", "2", ...: n symbols, the blank first
SymbolsUpTo(n) == [k \in 1..n |-> IF k = 1 THEN "_" ELSE ToString(k - 1)]

LargeDescription(n, row) ==
    [alphabet |-> SymbolsUpTo(n), states |-> StateNames,
     accepting |-> 1, rejecting |-> 2,
     transitions |-> [s \in StateIdx |-> IF s = 0 THEN row ELSE <<>>]]

\* inputs over the blank, the first and the last symbol of the alphabet
SymbolInputs(alphabet) ==
    SeqsUpTo({alphabet[1], alphabet[2], alphabet[Len(alphabet)]}, MaxLen) \ {<<>>}

InitSymbols ==
    \E n \in AlphabetSizes, row \in DRows :
        \/ InitWith("D", LargeDescription(n, row), 1)
        \/ InitWith("N", Lift(LargeDescription(n, row)), 1)

Overflows(alphabet, inp) == \E k \in 1..Len(inp) : index(alphabet, inp[k]) > 255

\* the call where np.array stores indices modulo 256
SymbolCall == \E inp \in SymbolInputs(description.alphabet) : process_input(inp, FALSE)

\* the call where np.array raises OverflowError (tm.py 49-50)
Overflow ==
    /\ pc = "idle"
    /\ budget > 0
    /\ \E inp \in SymbolInputs(description.alphabet) :
           /\ Overflows(description.alphabet, inp)
           /\ input' = inp
    /\ budget' = budget - 1
    /\ pc' = "error"
    /\ error' = "OverflowError"
    /\ UNCHANGED <<engine, description, configurations, heap, num_steps,
                   new_configurations, c_idx, i_idx, transitions, conf, result,
                   tape_arg, steps, generation, parents, prev>>

NextSymbols == SymbolCall \/ Overflow \/ D_loop \/ N_no_transition \/ N_iteration
                   \/ N_end_generation

SpecSymbols == InitSymbols /\ [][NextSymbols]_vars

ValidCells(tape) == \A k \in 1..Len(tape) : tape[k] < Len(description.alphabet)

(***************************************************************************)
(* C18: whatever the size of the alphabet, every symbol of an input can be *)
(* stored, the tape a call starts with holds in each cell the alphabet     *)
(* index of the input symbol placed there (of the blank for the empty      *)
(* input), and every cell of every configuration holds an index below      *)
(* len(alphabet).                                                          *)
(***************************************************************************)
C18_SymbolsValid ==
    /\ error # "OverflowError"
    /\ (pc = "running" /\ steps = 0) =>
           heap[1] = [k \in 1..Len(empty_as_blank(input)) |->
                         RefIndex(description.alphabet, empty_as_blank(input)[k])]
    /\ pc \in {"running", "done"} =>
           /\ \A k \in 1..Len(configurations) : ValidCells(heap[configurations[k].tape])
           /\ \A k \in 1..Len(new_configurations) :
                  ValidCells(heap[new_configurations[k].tape])

====
